---- MODULE Spec2Model ----
(***************************************************************************)
(* State-machine model of the bonsol-calculator on-chain program           *)
(* (solana-program/src/lib.rs) together with the arithmetic of the ZK      *)
(* guest (zk-program/src/main.rs).                                         *)
(*                                                                         *)
(* The ledger is one calculator state account.  `account` holds the        *)
(* CalculatorState that the written prefix of the account data decodes to  *)
(* (<<>> while the account has not been created).  Option<T> values are    *)
(* sequences of length 0 (None) or 1 (Some).  i64 values are modelled with *)
(* IntBits bits instead of 64.                                             *)
(*                                                                         *)
(* `zk` is one execution of the guest: the request, the input buffer the   *)
(* host built for it, and what the guest read, committed or panicked with. *)
(* `client` is one run of the client's request-id preparation.  `store`    *)
(* is the calculator account seen as bytes: its space, the length of the   *)
(* state serialized into it, and the instruction applied last.             *)
(***************************************************************************)
EXTENDS Integers, Sequences, FiniteSets, TLC

VARIABLES account, clock, last, submitted, zk, client, store

vars == <<account, clock, last, submitted, zk, client, store>>

(***************************************************************************)
(* Bounds of the model.                                                    *)
(***************************************************************************)
IntBits == 5
MaxCount == 2
MaxClock == 1
MaxIdPrefix == 17

RECURSIVE Pow2(_)
Pow2(n) == IF n = 0 THEN 1 ELSE 2 * Pow2(n - 1)

MinInt == -Pow2(IntBits - 1)
MaxInt == Pow2(IntBits - 1) - 1
I64 == MinInt..MaxInt

Abs(x) == IF x < 0 THEN -x ELSE x

(***************************************************************************)
(* Inputs the instructions are invoked with.                               *)
(***************************************************************************)
Keys == {"payer1", "payer2"}
ExecutionIds == {"test_add_001", "test_mul_002"}
OperandPairs == {<<-3, 2>>, <<MinInt, -1>>, <<2, 0>>}
Operations == 0..4
Results == {-2, -1, 0, 2}

(***************************************************************************)
(* Calculator operations (lib.rs 23-26, zk main.rs 3-6).                   *)
(***************************************************************************)
OP_ADD == 0
OP_SUBTRACT == 1
OP_MULTIPLY == 2
OP_DIVIDE == 3

None == <<>>
Some(v) == <<v>>
IsSome(o) == Len(o) = 1
Unwrap(o) == o[1]

(***************************************************************************)
(* ZK guest arithmetic (zk-program/src/main.rs).  The checked operations   *)
(* return None when the exact result leaves the signed range.              *)
(***************************************************************************)
InRange(x) == MinInt <= x /\ x <= MaxInt

\* Mutant: the sum wrapped into the i64 range instead of refused.
checked_add_wrapping(a, b) ==
    Some(((a + b - MinInt) % Pow2(IntBits)) + MinInt)

checked_add(a, b) == IF InRange(a + b) THEN Some(a + b) ELSE None

checked_sub(a, b) == IF InRange(a - b) THEN Some(a - b) ELSE None

checked_mul(a, b) == IF InRange(a * b) THEN Some(a * b) ELSE None

\* Mutant: the quotient rounded toward minus infinity.
TruncDiv_floor(a, b) == a \div b

\* Rust integer division truncates toward zero; MIN / -1 overflows.
TruncDiv(a, b) ==
    IF (a < 0) = (b < 0) THEN Abs(a) \div Abs(b) ELSE -(Abs(a) \div Abs(b))

\* Mutant: the quotient of i64::MIN by -1 not refused.
checked_div_unguarded(a, b) ==
    IF b = 0 THEN None ELSE Some(TruncDiv(a, b))

checked_div(a, b) ==
    IF b = 0 \/ (a = MinInt /\ b = -1) THEN None ELSE Some(TruncDiv(a, b))

U8_MAX == 255

\* Mutant: no test of the divisor before the division.
zk_compute_no_zero_check(op_i64, a, b) ==
    IF op_i64 < 0 \/ op_i64 > U8_MAX
    THEN [panic |-> "Operation code out of u8 range", value |-> None]
    ELSE IF op_i64 \notin {OP_ADD, OP_SUBTRACT, OP_MULTIPLY, OP_DIVIDE}
    THEN [panic |-> "Unknown operation", value |-> None]
    ELSE LET result == CASE op_i64 = OP_ADD -> checked_add(a, b)
                         [] op_i64 = OP_SUBTRACT -> checked_sub(a, b)
                         [] op_i64 = OP_MULTIPLY -> checked_mul(a, b)
                         [] op_i64 = OP_DIVIDE -> checked_div(a, b)
         IN  IF IsSome(result)
             THEN [panic |-> "", value |-> result]
             ELSE [panic |-> "Arithmetic overflow/underflow", value |-> None]

\* Mutant: the operation code cast to u8 without the range test before it.
zk_compute_cast_only(op_i64, a, b) ==
    LET operation == op_i64 % (U8_MAX + 1) IN
    IF operation = OP_DIVIDE /\ b = 0
    THEN [panic |-> "Division by zero", value |-> None]
    ELSE IF operation \notin {OP_ADD, OP_SUBTRACT, OP_MULTIPLY, OP_DIVIDE}
    THEN [panic |-> "Unknown operation", value |-> None]
    ELSE LET result == CASE operation = OP_ADD -> checked_add(a, b)
                         [] operation = OP_SUBTRACT -> checked_sub(a, b)
                         [] operation = OP_MULTIPLY -> checked_mul(a, b)
                         [] operation = OP_DIVIDE -> checked_div(a, b)
         IN  IF IsSome(result)
             THEN [panic |-> "", value |-> result]
             ELSE [panic |-> "Arithmetic overflow/underflow", value |-> None]

\* main(): the value committed for the decoded inputs, or the panic raised.
zk_compute(op_i64, a, b) ==
    IF op_i64 < 0 \/ op_i64 > U8_MAX
    THEN [panic |-> "Operation code out of u8 range", value |-> None]
    ELSE IF op_i64 = OP_DIVIDE /\ b = 0
    THEN [panic |-> "Division by zero", value |-> None]
    ELSE IF op_i64 \notin {OP_ADD, OP_SUBTRACT, OP_MULTIPLY, OP_DIVIDE}
    THEN [panic |-> "Unknown operation", value |-> None]
    ELSE LET result == CASE op_i64 = OP_ADD -> checked_add(a, b)
                         [] op_i64 = OP_SUBTRACT -> checked_sub(a, b)
                         [] op_i64 = OP_MULTIPLY -> checked_mul(a, b)
                         [] op_i64 = OP_DIVIDE -> checked_div(a, b)
         IN  IF IsSome(result)
             THEN [panic |-> "", value |-> result]
             ELSE [panic |-> "Arithmetic overflow/underflow", value |-> None]

(***************************************************************************)
(* Guest input and journal.  A byte is an integer in 0..255; a buffer is a *)
(* sequence of bytes.  The i64 values of the model lie far below 2^24, so  *)
(* the three low bytes carry the magnitude and the five high bytes the     *)
(* sign extension of the 64-bit two's complement form.                     *)
(***************************************************************************)
I64_BYTES == 8
PADDED_RESULT_LEN == 32

\* i64::to_le_bytes
to_le_bytes(x) ==
    [i \in 1..I64_BYTES |->
       LET m == IF x >= 0 THEN x ELSE -x - 1
           d == IF i <= 3 THEN (m \div (256 ^ (i - 1))) % 256 ELSE 0
       IN  IF x >= 0 THEN d ELSE 255 - d]

RECURSIVE le_magnitude(_, _, _)
le_magnitude(bytes, negative, i) ==
    IF i > Len(bytes) THEN 0
    ELSE (IF negative THEN 255 - bytes[i] ELSE bytes[i])
         + 256 * le_magnitude(bytes, negative, i + 1)

\* i64::from_le_bytes
from_le_bytes(bytes) ==
    IF bytes[I64_BYTES] >= 128
    THEN -le_magnitude(bytes, TRUE, 1) - 1
    ELSE le_magnitude(bytes, FALSE, 1)

\* Mutant: the two operands appended in the wrong order.
combined_input_swapped(operation, operand_a, operand_b) ==
    to_le_bytes(operation) \o to_le_bytes(operand_b) \o to_le_bytes(operand_a)

\* submit_calculation: the 24-byte input of the execution request.
combined_input(operation, operand_a, operand_b) ==
    to_le_bytes(operation) \o to_le_bytes(operand_a) \o to_le_bytes(operand_b)

\* create_execution_directly: the 24-byte input built by the client.
client_combined_input(op_code, operand_a, operand_b) ==
    LET operation_bytes == to_le_bytes(op_code)
        operand_a_bytes == to_le_bytes(operand_a)
        operand_b_bytes == to_le_bytes(operand_b)
    IN  operation_bytes \o operand_a_bytes \o operand_b_bytes

\* read_i64_input: the n-th read_slice of 8 bytes (n counted from 0).
read_i64_input(input, n) ==
    from_le_bytes(SubSeq(input, I64_BYTES * n + 1, I64_BYTES * (n + 1)))

RECURSIVE digits_of(_)
digits_of(n) ==
    IF n < 10 THEN <<48 + n>> ELSE Append(digits_of(n \div 10), 48 + (n % 10))

\* i64::to_string, as the bytes of the text: '-' is 45, '0'..'9' are 48..57.
to_string(value) ==
    IF value < 0 THEN <<45>> \o digits_of(-value) ELSE digits_of(value)

\* Mutant: the bytes after the text left as the zeros of the fresh buffer.
padded_result_bytes_zero_filled(result_bytes) ==
    LET len == Len(result_bytes) IN
    IF len > PADDED_RESULT_LEN
    THEN SubSeq(result_bytes, 1, PADDED_RESULT_LEN)
    ELSE [i \in 1..PADDED_RESULT_LEN |->
            IF i <= len THEN result_bytes[i] ELSE 0]

\* The 32-byte buffer committed for a result text: a longer text is cut to
\* its first 32 bytes, a shorter one is followed by spaces (32).
padded_result_bytes(result_bytes) ==
    LET len == Len(result_bytes) IN
    IF len > PADDED_RESULT_LEN
    THEN SubSeq(result_bytes, 1, PADDED_RESULT_LEN)
    ELSE [i \in 1..PADDED_RESULT_LEN |->
            IF i <= len THEN result_bytes[i] ELSE 32]

\* main(): the values read from the input, and the journal committed or the
\* panic raised.  The operands are read only after the range test of the
\* operation code has passed.
main(input) ==
    LET op_i64 == read_i64_input(input, 0)
        a == read_i64_input(input, 1)
        b == read_i64_input(input, 2)
        out == zk_compute(op_i64, a, b)
    IN  [read |-> IF op_i64 < 0 \/ op_i64 > U8_MAX
                  THEN <<op_i64>> ELSE <<op_i64, a, b>>,
         panic |-> out.panic,
         value |-> out.value,
         journal |-> IF out.panic = ""
                     THEN padded_result_bytes(to_string(Unwrap(out.value)))
                     ELSE <<>>]

(***************************************************************************)
(* Ledger: the calculator state account (solana-program/src/lib.rs).       *)
(***************************************************************************)
\* CalculatorState written by initialize.
InitialState(owner) ==
    [is_initialized |-> TRUE, owner |-> owner,
     calculation_count |-> 0, last_calculation |-> None]

\* CalculatorState::try_from_slice(&data): the state that the written
\* prefix of the account data decodes to; an account that was never created
\* has no data to decode.  The length of the slice (CalculatorState::LEN)
\* and the bytes after the written prefix are not represented here.
try_from_slice(data) == IF data = <<>> THEN None ELSE Some(data[1])

\* data[..serialized.len()].copy_from_slice(&serialized)
copy_from_slice(state) == <<state>>

\* Mutant: the account created again over an address already in use.
create_account_ok_always(data) == TRUE

\* system_instruction::create_account succeeds on an unused address only.
create_account_ok(data) == data = <<>>

\* Mutant: a range test that is off by one at the upper end.
ValidOperation_off_by_one(operation) ==
    OP_ADD <= operation /\ operation <= OP_DIVIDE + 1

ValidOperation(operation) ==
    operation \in {OP_ADD, OP_SUBTRACT, OP_MULTIPLY, OP_DIVIDE}

\* Mutant: the owner comparison left out.
IsOwner_anyone(state, payer_key) == TRUE

IsOwner(state, payer_key) == state.owner = payer_key

\* Mutant: the record stamped with a constant instead of the clock.
NewRecord_unstamped(execution_id, operation, operand_a, operand_b, now) ==
    [execution_id |-> execution_id, operation |-> operation,
     operand_a |-> operand_a, operand_b |-> operand_b,
     result |-> None, timestamp |-> 0, is_complete |-> FALSE]

\* Mutant: the two operands stored in each other's field.
NewRecord_swapped(execution_id, operation, operand_a, operand_b, now) ==
    [execution_id |-> execution_id, operation |-> operation,
     operand_a |-> operand_b, operand_b |-> operand_a,
     result |-> None, timestamp |-> now, is_complete |-> FALSE]

\* The CalculationRecord created by submit_calculation (marked as pending).
NewRecord(execution_id, operation, operand_a, operand_b, now) ==
    [execution_id |-> execution_id, operation |-> operation,
     operand_a |-> operand_a, operand_b |-> operand_b,
     result |-> None, timestamp |-> now, is_complete |-> FALSE]

\* Mutant: the increment left out.
NextCount_stuck(count) == count

NextCount(count) == count + 1

\* Mutant: the completed record rebuilt with its operands left at 0.
CompleteRecord_drops_operands(calc, result) ==
    [calc EXCEPT !.result = Some(result), !.is_complete = TRUE,
                 !.operand_a = 0, !.operand_b = 0]

\* Mutant: the result stored without marking the record complete.
CompleteRecord_no_flag(calc, result) == [calc EXCEPT !.result = Some(result)]

\* The update callback applies to the record it matched.
CompleteRecord(calc, result) ==
    [calc EXCEPT !.result = Some(result), !.is_complete = TRUE]

\* Mutant: the execution id comparison left out.
IdMatches_always(calc, execution_id) == TRUE

IdMatches(calc, execution_id) == calc.execution_id = execution_id

Outcome(ret, log, data) == [ret |-> ret, log |-> log, data |-> data]

MSG_INITIALIZED == "Calculator backend initialized"
MSG_SUBMITTED == "Awaiting ZK proof computation..."
MSG_HISTORY == "Calculator History:"
MSG_COMPLETED == "ZK computation completed"
MSG_MISMATCH == "Warning: Execution ID mismatch in callback"
MSG_NO_PENDING == "Warning: No pending calculation found for callback"

initialize(data, payer_key, is_signer) ==
    IF ~is_signer
    THEN Outcome("MissingRequiredSignature", "", data)
    ELSE IF ~create_account_ok(data)
    THEN Outcome("AccountAlreadyInUse", "", data)
    ELSE Outcome("Ok", MSG_INITIALIZED, copy_from_slice(InitialState(payer_key)))

\* The instructions submit_calculation hands to the runtime for an accepted
\* request: the Bonsol execution instruction is built, and its invoke is
\* commented out.
submit_calculation_invokes(execution_id, operation, operand_a, operand_b) == <<>>

\* Mutant: a submit refused while the current record is still pending.
SubmitCheck_one_pending(data, payer_key, is_signer, operation) ==
    IF ~is_signer THEN "MissingRequiredSignature"
    ELSE IF ~ValidOperation(operation) THEN "InvalidInstructionData"
    ELSE IF ~IsSome(try_from_slice(data)) THEN "BorshIoError"
    ELSE IF ~IsOwner(Unwrap(try_from_slice(data)), payer_key)
    THEN "IncorrectProgramId"
    ELSE IF IsSome(Unwrap(try_from_slice(data)).last_calculation)
    THEN IF Unwrap(Unwrap(try_from_slice(data)).last_calculation).is_complete
         THEN "Ok" ELSE "InvalidAccountData"
    ELSE "Ok"

\* The checks of submit_calculation, in the order the handler makes them:
\* the error returned, or "Ok" when the request is accepted.
SubmitCheck(data, payer_key, is_signer, operation) ==
    IF ~is_signer THEN "MissingRequiredSignature"
    ELSE IF ~ValidOperation(operation) THEN "InvalidInstructionData"
    ELSE IF ~IsSome(try_from_slice(data)) THEN "BorshIoError"
    ELSE IF ~IsOwner(Unwrap(try_from_slice(data)), payer_key)
    THEN "IncorrectProgramId"
    ELSE "Ok"

submit_calculation(data, payer_key, is_signer, execution_id, operation, operand_a, operand_b, now) ==
    LET err == SubmitCheck(data, payer_key, is_signer, operation) IN
    IF err # "Ok"
    THEN Outcome(err, "", data)
    ELSE LET calculator_state == Unwrap(try_from_slice(data))
             calculation == NewRecord(execution_id, operation,
                                      operand_a, operand_b, now)
             updated == [calculator_state EXCEPT
                           !.calculation_count = NextCount(@),
                           !.last_calculation = Some(calculation)]
         IN  Outcome("Ok", MSG_SUBMITTED, copy_from_slice(updated))

get_history(data) ==
    IF ~IsSome(try_from_slice(data))
    THEN Outcome("BorshIoError", "", data)
    ELSE Outcome("Ok", MSG_HISTORY, data)

\* Mutant: a callback for another execution id drops the pending record.
callback_mismatch_drops_record(data, execution_id, result) ==
    IF ~IsSome(try_from_slice(data))
    THEN Outcome("BorshIoError", "", data)
    ELSE LET calculator_state == Unwrap(try_from_slice(data)) IN
         IF IsSome(calculator_state.last_calculation)
         THEN LET calc == Unwrap(calculator_state.last_calculation) IN
              IF IdMatches(calc, execution_id)
              THEN Outcome("Ok", MSG_COMPLETED,
                       copy_from_slice([calculator_state EXCEPT
                           !.last_calculation =
                               Some(CompleteRecord(calc, result))]))
              ELSE Outcome("Ok", MSG_MISMATCH,
                       copy_from_slice([calculator_state EXCEPT
                           !.last_calculation = None]))
         ELSE Outcome("Ok", MSG_NO_PENDING, data)

\* Mutant: the two warning branches in each other's place.
callback_warnings_swapped(data, execution_id, result) ==
    IF ~IsSome(try_from_slice(data))
    THEN Outcome("BorshIoError", "", data)
    ELSE LET calculator_state == Unwrap(try_from_slice(data)) IN
         IF IsSome(calculator_state.last_calculation)
         THEN LET calc == Unwrap(calculator_state.last_calculation) IN
              IF IdMatches(calc, execution_id)
              THEN Outcome("Ok", MSG_COMPLETED,
                       copy_from_slice([calculator_state EXCEPT
                           !.last_calculation =
                               Some(CompleteRecord(calc, result))]))
              ELSE Outcome("Ok", MSG_NO_PENDING, data)
         ELSE Outcome("Ok", MSG_MISMATCH, data)

callback(data, execution_id, result) ==
    IF ~IsSome(try_from_slice(data))
    THEN Outcome("BorshIoError", "", data)
    ELSE LET calculator_state == Unwrap(try_from_slice(data)) IN
         IF IsSome(calculator_state.last_calculation)
         THEN LET calc == Unwrap(calculator_state.last_calculation) IN
              IF IdMatches(calc, execution_id)
              THEN Outcome("Ok", MSG_COMPLETED,
                       copy_from_slice([calculator_state EXCEPT
                           !.last_calculation =
                               Some(CompleteRecord(calc, result))]))
              ELSE Outcome("Ok", MSG_MISMATCH, data)
         ELSE Outcome("Ok", MSG_NO_PENDING, data)

(***************************************************************************)
(* The state machine: one action per instruction of process_instruction,   *)
(* applied atomically, plus the passing of time.  `last` records the       *)
(* instruction applied last, what it returned and logged and, for a        *)
(* callback, the execution id it carried; `submitted` counts the           *)
(* submit_calculation instructions that returned Ok.                       *)
(***************************************************************************)
Last(op, out, execution_id) ==
    [op |-> op, ret |-> out.ret, log |-> out.log, execution_id |-> execution_id]

(***************************************************************************)
(* Instruction data.  CalculatorInstruction::try_from_slice reads the      *)
(* variant index, then the fields of the variant (a String is a u32 length *)
(* in little-endian followed by that many bytes, an i64 is 8 bytes), and   *)
(* fails unless exactly the whole slice was read.                          *)
(***************************************************************************)
InstructionErr ==
    [variant |-> "Err", execution_id |-> <<>>, operation |-> 0,
     operand_a |-> 0, operand_b |-> 0, result |-> None]

\* The length prefix of a String at the head of `bytes`, or -1 when the
\* prefix is cut short or tells more bytes than an instruction can hold.
string_len(bytes) ==
    IF Len(bytes) < 4 THEN -1
    ELSE IF bytes[3] # 0 \/ bytes[4] # 0 THEN -1
    ELSE bytes[1] + 256 * bytes[2]

\* Mutant: a Callback whose bytes end before the result decoded with
\* result 0 instead of refused.
instruction_try_from_slice_short_result(instruction_data) ==
    IF instruction_data = <<>> THEN InstructionErr
    ELSE LET tag == instruction_data[1]
             rest == Tail(instruction_data)
             n == string_len(rest)
         IN  IF tag = 3 /\ n >= 0 /\ Len(rest) >= 4 + n
             THEN [InstructionErr EXCEPT
                     !.variant = "Callback",
                     !.execution_id = SubSeq(rest, 5, 4 + n),
                     !.result = IF Len(rest) = 4 + n + I64_BYTES
                                THEN Some(from_le_bytes(
                                       SubSeq(rest, 5 + n, 4 + n + I64_BYTES)))
                                ELSE Some(0)]
             ELSE InstructionErr

instruction_try_from_slice(instruction_data) ==
    IF instruction_data = <<>> THEN InstructionErr
    ELSE LET tag == instruction_data[1]
             rest == Tail(instruction_data)
             n == string_len(rest)
         IN  CASE tag = 0 ->
                    IF rest = <<>>
                    THEN [InstructionErr EXCEPT !.variant = "Initialize"]
                    ELSE InstructionErr
               [] tag = 1 ->
                    IF n >= 0 /\ Len(rest) = 4 + n + 3 * I64_BYTES
                    THEN [InstructionErr EXCEPT
                            !.variant = "SubmitCalculation",
                            !.execution_id = SubSeq(rest, 5, 4 + n),
                            !.operation = read_i64_input(SubSeq(rest, 5 + n, Len(rest)), 0),
                            !.operand_a = read_i64_input(SubSeq(rest, 5 + n, Len(rest)), 1),
                            !.operand_b = read_i64_input(SubSeq(rest, 5 + n, Len(rest)), 2)]
                    ELSE InstructionErr
               [] tag = 2 ->
                    IF rest = <<>>
                    THEN [InstructionErr EXCEPT !.variant = "GetHistory"]
                    ELSE InstructionErr
               [] tag = 3 ->
                    IF n >= 0 /\ Len(rest) = 4 + n + I64_BYTES
                    THEN [InstructionErr EXCEPT
                            !.variant = "Callback",
                            !.execution_id = SubSeq(rest, 5, 4 + n),
                            !.result = Some(from_le_bytes(
                                         SubSeq(rest, 5 + n, 4 + n + I64_BYTES)))]
                    ELSE InstructionErr
               [] OTHER -> InstructionErr

\* The UTF-8 bytes of the execution ids of the model.
IdBytes(execution_id) ==
    CASE execution_id = "test_add_001" ->
           <<116, 101, 115, 116, 95, 97, 100, 100, 95, 48, 48, 49>>
      [] execution_id = "test_mul_002" ->
           <<116, 101, 115, 116, 95, 109, 117, 108, 95, 48, 48, 50>>

\* The String decoded from the bytes of an execution id ("?" stands for
\* every text that is none of the execution ids of the model).
from_utf8(bytes) ==
    IF \E id \in ExecutionIds : IdBytes(id) = bytes
    THEN CHOOSE id \in ExecutionIds : IdBytes(id) = bytes
    ELSE "?"

\* The borsh form of CalculatorInstruction::Callback { execution_id, result }.
callback_data(execution_id, result) ==
    <<3>> \o <<Len(IdBytes(execution_id)), 0, 0, 0>> \o IdBytes(execution_id)
          \o to_le_bytes(result)

\* process_instruction: decode first, then dispatch to the handler.
process_instruction(data, payer_key, is_signer, instruction_data, now) ==
    LET instruction == instruction_try_from_slice(instruction_data) IN
    CASE instruction.variant = "Err" -> Outcome("BorshIoError", "", data)
      [] instruction.variant = "Initialize" ->
           initialize(data, payer_key, is_signer)
      [] instruction.variant = "SubmitCalculation" ->
           submit_calculation(data, payer_key, is_signer,
                              from_utf8(instruction.execution_id),
                              instruction.operation, instruction.operand_a,
                              instruction.operand_b, now)
      [] instruction.variant = "GetHistory" -> get_history(data)
      [] instruction.variant = "Callback" ->
           callback(data, from_utf8(instruction.execution_id),
                    Unwrap(instruction.result))

\* The variant a borsh variant index selects (the order of the enum).
tag_variant(tag) ==
    CASE tag = 0 -> "Initialize"
      [] tag = 1 -> "SubmitCalculation"
      [] tag = 2 -> "GetHistory"
      [] tag = 3 -> "Callback"
      [] OTHER -> "Err"

\* The instruction prefix submit_calculation configures for the callback.
instruction_prefix == <<2>>

\* The instruction prefix create_execution_directly configures for the
\* callback (its callback program is the calculator program).
client_instruction_prefix == <<1>>

\* The data of the callback instruction: the configured prefix, then the
\* forwarded journal (forward_output: true).
callback_instruction_data(journal) == instruction_prefix \o journal

\* process_instruction on the callback data: the result handed to
\* callback(), or None when the data does not decode to a Callback.
callback_result(instruction_data) ==
    LET instruction == instruction_try_from_slice(instruction_data) IN
    IF instruction.variant = "Callback" THEN instruction.result ELSE None

(***************************************************************************)
(* Request id of the client (client/src/main.rs 163-166, 223-226).  A      *)
(* string is a sequence of characters, a character the sequence of its     *)
(* UTF-8 bytes.                                                            *)
(***************************************************************************)
ID_LEN == 16

RECURSIVE as_bytes(_)
as_bytes(str) == IF str = <<>> THEN <<>> ELSE Head(str) \o as_bytes(Tail(str))

\* format!("{:0<16}", id): filled on the right with '0' up to 16 characters.
format_pad(str) ==
    IF Len(str) >= ID_LEN THEN str
    ELSE str \o [i \in 1..(ID_LEN - Len(str)) |-> <<48>>]

\* &str[..n]: the characters that end at byte n, or a panic when byte n is
\* inside a character.
str_slice_to(str, n) ==
    IF \E k \in 0..Len(str) : Len(as_bytes(SubSeq(str, 1, k))) = n
    THEN [panic |-> FALSE,
          str |-> SubSeq(str, 1, CHOOSE k \in 0..Len(str) :
                                   Len(as_bytes(SubSeq(str, 1, k))) = n)]
    ELSE [panic |-> TRUE, str |-> <<>>]

\* The execution id the client sends for the id given on the command line.
padded_execution_id(execution_id) ==
    LET padded == format_pad(execution_id)
        len == Len(as_bytes(padded))
    IN  str_slice_to(padded, IF ID_LEN < len THEN ID_LEN ELSE len)

ClientIdle == [phase |-> "idle", input |-> <<>>, panic |-> FALSE, id |-> <<>>]

(***************************************************************************)
(* The calculator account as bytes.  Only lengths are kept: the space of   *)
(* the account, and the state last serialized into it, in which an         *)
(* execution id is represented by its length in bytes (two ids of one      *)
(* length are the same id here).  The borsh form of the state is           *)
(* self-delimiting, so the bytes of a longer state left behind a shorter   *)
(* one are never read as part of it.                                       *)
(***************************************************************************)
LEN == 1 + 32 + 8 + 200

StoreNone == [kind |-> "None", id_len |-> 0]
StorePending(id_len) == [kind |-> "Pending", id_len |-> id_len]
StoreComplete(id_len) == [kind |-> "Complete", id_len |-> id_len]

\* Length of CalculationRecord as borsh writes it: String (4 + bytes), three
\* i64, Option<i64> (1, or 1 + 8 when Some), i64, bool.
record_len(record) ==
    4 + record.id_len + 3 * I64_BYTES
      + (IF record.kind = "Complete" THEN 1 + I64_BYTES ELSE 1) + I64_BYTES + 1

\* Length of CalculatorState as borsh writes it: bool, Pubkey, u64,
\* Option<CalculationRecord>.
serialized_len(state) ==
    1 + 32 + 8
      + (IF state.last_calculation.kind = "None" THEN 1
         ELSE 1 + record_len(state.last_calculation))

\* Mutant: the bytes after the decoded state are not looked at.
strict_try_from_slice_prefix(data) ==
    IF data = <<>> THEN None ELSE Some(data[1].state)

\* CalculatorState::try_from_slice(&data) on the whole account data: borsh
\* refuses the slice unless decoding the state has consumed all of it.
strict_try_from_slice(data) ==
    IF data = <<>> THEN None
    ELSE IF serialized_len(data[1].state) = data[1].space
    THEN Some(data[1].state)
    ELSE None

\* data[..serialized.len()].copy_from_slice(&serialized) panics when the
\* serialized state is longer than the account data.
write_fits(data, state) == serialized_len(state) <= data[1].space

StoreOutcome(ret, data) == [ret |-> ret, data |-> data]

store_initialize(data, is_signer) ==
    IF ~is_signer THEN StoreOutcome("MissingRequiredSignature", data)
    ELSE IF ~create_account_ok(data) THEN StoreOutcome("AccountAlreadyInUse", data)
    ELSE LET created == <<[space |-> LEN,
                           state |-> [calculation_count |-> 0,
                                      last_calculation |-> StoreNone]]>>
         IN  IF write_fits(created, created[1].state)
             THEN StoreOutcome("Ok", created)
             ELSE StoreOutcome("panic", data)

store_submit_calculation(data, is_signer, is_owner, operation, id_len) ==
    IF ~is_signer THEN StoreOutcome("MissingRequiredSignature", data)
    ELSE IF ~ValidOperation(operation) THEN StoreOutcome("InvalidInstructionData", data)
    ELSE IF ~IsSome(strict_try_from_slice(data)) THEN StoreOutcome("BorshIoError", data)
    ELSE IF ~is_owner THEN StoreOutcome("IncorrectProgramId", data)
    ELSE LET calculator_state == Unwrap(strict_try_from_slice(data))
             updated == [calculation_count |->
                             NextCount(calculator_state.calculation_count),
                         last_calculation |-> StorePending(id_len)]
         IN  IF write_fits(data, updated)
             THEN StoreOutcome("Ok", <<[data[1] EXCEPT !.state = updated]>>)
             ELSE StoreOutcome("panic", data)

store_get_history(data) ==
    IF ~IsSome(strict_try_from_slice(data)) THEN StoreOutcome("BorshIoError", data)
    ELSE StoreOutcome("Ok", data)

store_callback(data, id_len) ==
    IF ~IsSome(strict_try_from_slice(data)) THEN StoreOutcome("BorshIoError", data)
    ELSE LET calculator_state == Unwrap(strict_try_from_slice(data))
             calc == calculator_state.last_calculation
             updated == [calculator_state EXCEPT
                           !.last_calculation = StoreComplete(calc.id_len)]
         IN  IF calc.kind # "None" /\ calc.id_len = id_len
             THEN IF write_fits(data, updated)
                  THEN StoreOutcome("Ok", <<[data[1] EXCEPT !.state = updated]>>)
                  ELSE StoreOutcome("panic", data)
             ELSE StoreOutcome("Ok", data)

StoreCall(op, is_signer, is_owner, operation, id_len, ret) ==
    [op |-> op, is_signer |-> is_signer, is_owner |-> is_owner,
     operation |-> operation, id_len |-> id_len, ret |-> ret]

StoreIdle == [data |-> <<>>, call |-> StoreCall("none", FALSE, FALSE, 0, 0, "Ok")]

\* One execution of the guest, before any request exists.
ZkIdle ==
    [phase |-> "idle", request |-> <<>>, builder |-> "", input |-> <<>>,
     prefix |-> <<>>, read |-> <<>>, panic |-> "", value |-> None,
     journal |-> <<>>]

Init ==
    /\ account = <<>>
    /\ clock = 0
    /\ last = [op |-> "none", ret |-> "Ok", log |-> "", execution_id |-> ""]
    /\ submitted = 0
    /\ zk = ZkIdle
    /\ client = ClientIdle
    /\ store = StoreIdle

Initialize(payer_key, is_signer) ==
    LET out == initialize(account, payer_key, is_signer) IN
    /\ account' = out.data
    /\ last' = Last("initialize", out, "")
    /\ UNCHANGED <<clock, submitted, zk, client, store>>

CountBelowCap ==
    IF account = <<>> THEN TRUE ELSE account[1].calculation_count < MaxCount

SubmitCalculation(payer_key, is_signer, execution_id, operation, operand_a, operand_b) ==
    LET out == submit_calculation(account, payer_key, is_signer, execution_id,
                                  operation, operand_a, operand_b, clock) IN
    /\ CountBelowCap
    /\ account' = out.data
    /\ last' = Last("submit_calculation", out, "")
    /\ submitted' = IF out.ret = "Ok" THEN submitted + 1 ELSE submitted
    /\ UNCHANGED <<clock, zk, client, store>>

GetHistory ==
    LET out == get_history(account) IN
    /\ account' = out.data
    /\ last' = Last("get_history", out, "")
    /\ UNCHANGED <<clock, submitted, zk, client, store>>

Callback(execution_id, result) ==
    LET out == callback(account, execution_id, result) IN
    /\ account' = out.data
    /\ last' = Last("callback", out, execution_id)
    /\ UNCHANGED <<clock, submitted, zk, client, store>>

\* Instruction data that do not decode: empty, an unknown variant index, a
\* Callback cut before or inside its result, the journal of the guest behind
\* a one-byte prefix.
UndecodableData ==
    { <<>>, <<7>>, <<3>>,
      <<3, 12, 0, 0, 0>> \o IdBytes("test_add_001"),
      <<3, 12, 0, 0, 0>> \o IdBytes("test_mul_002") \o <<2, 0, 0>>,
      <<2>> \o padded_result_bytes(to_string(2)),
      <<3>> \o padded_result_bytes(to_string(-1)) }

CallbackData ==
    UndecodableData \cup { callback_data(id, 2) : id \in ExecutionIds }

\* An instruction arriving as raw data on the callback route (no signer).
ProcessInstruction(instruction_data) ==
    LET instruction == instruction_try_from_slice(instruction_data)
        out == process_instruction(account, "", FALSE, instruction_data, clock)
    IN  /\ instruction.variant \in {"Err", "Callback"}
        /\ account' = out.data
        /\ last' = IF instruction.variant = "Err"
                   THEN Last("process_instruction", out, "")
                   ELSE Last("callback", out, from_utf8(instruction.execution_id))
        /\ UNCHANGED <<clock, submitted, zk, client, store>>

Tick ==
    /\ clock < MaxClock
    /\ clock' = clock + 1
    /\ last' = [op |-> "tick", ret |-> "Ok", log |-> "", execution_id |-> ""]
    /\ UNCHANGED <<account, submitted, zk, client, store>>

Next ==
    \/ \E p \in Keys, s \in BOOLEAN : Initialize(p, s)
    \/ \E p \in Keys, s \in BOOLEAN, id \in ExecutionIds, op \in Operations,
          ab \in OperandPairs :
           SubmitCalculation(p, s, id, op, ab[1], ab[2])
    \/ GetHistory
    \/ \E id \in ExecutionIds, r \in Results : Callback(id, r)
    \/ \E d \in CallbackData : ProcessInstruction(d)
    \/ Tick

Spec == Init /\ [][Next]_vars

(***************************************************************************)
(* Executions of the guest.  A request is an operation code and two        *)
(* operands; its input buffer is built by submit_calculation, by the       *)
(* client, or sent by any other host (the only source of operation codes   *)
(* outside 0..3); then main() runs once on the buffer.                     *)
(***************************************************************************)
OpCodes == (-1..4) \cup {U8_MAX, U8_MAX + 1}

ZkRequest(op, a, b) == [ZkIdle EXCEPT !.phase = "requested", !.request = <<op, a, b>>]

InitEngine ==
    /\ account = <<>>
    /\ clock = 0
    /\ last = [op |-> "none", ret |-> "Ok", log |-> "", execution_id |-> ""]
    /\ submitted = 0
    /\ \E op \in OpCodes, a \in I64, b \in I64 : zk = ZkRequest(op, a, b)
    /\ client = ClientIdle
    /\ store = StoreIdle

ProgramBuildsInput ==
    /\ zk.phase = "requested"
    /\ ValidOperation(zk.request[1])
    /\ zk' = [zk EXCEPT !.phase = "ready", !.builder = "program",
                !.prefix = instruction_prefix,
                !.input = combined_input(zk.request[1], zk.request[2], zk.request[3])]
    /\ UNCHANGED <<account, clock, last, submitted, client, store>>

ClientBuildsInput ==
    /\ zk.phase = "requested"
    /\ zk.request[1] \in {OP_ADD, OP_SUBTRACT, OP_MULTIPLY, OP_DIVIDE}
    /\ zk' = [zk EXCEPT !.phase = "ready", !.builder = "client",
                !.prefix = client_instruction_prefix,
                !.input = client_combined_input(zk.request[1], zk.request[2], zk.request[3])]
    /\ UNCHANGED <<account, clock, last, submitted, client, store>>

HostSendsInput ==
    /\ zk.phase = "requested"
    /\ zk' = [zk EXCEPT !.phase = "ready", !.builder = "host",
                !.input = to_le_bytes(zk.request[1]) \o to_le_bytes(zk.request[2])
                            \o to_le_bytes(zk.request[3])]
    /\ UNCHANGED <<account, clock, last, submitted, client, store>>

ZkMain ==
    /\ zk.phase = "ready"
    /\ LET out == main(zk.input) IN
         zk' = [zk EXCEPT !.phase = "done", !.read = out.read,
                  !.panic = out.panic, !.value = out.value,
                  !.journal = out.journal]
    /\ UNCHANGED <<account, clock, last, submitted, client, store>>

NextEngine ==
    \/ ProgramBuildsInput
    \/ ClientBuildsInput
    \/ HostSendsInput
    \/ ZkMain

SpecEngine == InitEngine /\ [][NextEngine]_vars

(***************************************************************************)
(* Runs of the client's request-id preparation.  The id given on the       *)
(* command line is any string; the ones drawn here are up to MaxIdPrefix   *)
(* one-byte characters, then at most one character of 2, 3 or 4 bytes,     *)
(* then up to 2 one-byte characters.                                       *)
(***************************************************************************)
WideChars == { <<>>, <<<<195, 169>>>>, <<<<226, 130, 172>>>>,
               <<<<240, 159, 152, 128>>>> }

GivenIds ==
    { [i \in 1..k |-> <<97>>] \o w \o [i \in 1..m |-> <<98>>] :
        k \in 0..MaxIdPrefix, w \in WideChars, m \in 0..2 }

InitClient ==
    /\ account = <<>>
    /\ clock = 0
    /\ last = [op |-> "none", ret |-> "Ok", log |-> "", execution_id |-> ""]
    /\ submitted = 0
    /\ zk = ZkIdle
    /\ store = StoreIdle
    /\ \E id \in GivenIds : client = [ClientIdle EXCEPT !.phase = "given", !.input = id]

PrepareExecutionId ==
    /\ client.phase = "given"
    /\ LET out == padded_execution_id(client.input) IN
         client' = [client EXCEPT !.phase = "prepared", !.panic = out.panic,
                      !.id = as_bytes(out.str)]
    /\ UNCHANGED <<account, clock, last, submitted, zk, store>>

NextClient == PrepareExecutionId

SpecClient == InitClient /\ [][NextClient]_vars

(***************************************************************************)
(* The instructions applied to the account as bytes.  The execution ids    *)
(* drawn are those of the test client's length (12), of the client's (16), *)
(* and the lengths around the space the account has for a record.          *)
(***************************************************************************)
IdLens == {12, ID_LEN, 153, 154, 161, 162}

InitStore ==
    /\ account = <<>>
    /\ clock = 0
    /\ last = [op |-> "none", ret |-> "Ok", log |-> "", execution_id |-> ""]
    /\ submitted = 0
    /\ zk = ZkIdle
    /\ client = ClientIdle
    /\ store = StoreIdle

StoreInitialize(is_signer) ==
    LET out == store_initialize(store.data, is_signer) IN
    /\ store' = [data |-> out.data,
                 call |-> StoreCall("initialize", is_signer, is_signer, 0, 0, out.ret)]
    /\ UNCHANGED <<account, clock, last, submitted, zk, client>>

StoreSubmitCalculation(is_signer, is_owner, operation, id_len) ==
    LET out == store_submit_calculation(store.data, is_signer, is_owner,
                                        operation, id_len) IN
    /\ store' = [data |-> out.data,
                 call |-> StoreCall("submit_calculation", is_signer, is_owner,
                                    operation, id_len, out.ret)]
    /\ UNCHANGED <<account, clock, last, submitted, zk, client>>

StoreGetHistory ==
    LET out == store_get_history(store.data) IN
    /\ store' = [data |-> out.data,
                 call |-> StoreCall("get_history", FALSE, FALSE, 0, 0, out.ret)]
    /\ UNCHANGED <<account, clock, last, submitted, zk, client>>

StoreCallback(id_len) ==
    LET out == store_callback(store.data, id_len) IN
    /\ store' = [data |-> out.data,
                 call |-> StoreCall("callback", FALSE, FALSE, 0, id_len, out.ret)]
    /\ UNCHANGED <<account, clock, last, submitted, zk, client>>

NextStore ==
    \/ \E s \in BOOLEAN : StoreInitialize(s)
    \/ \E s \in BOOLEAN, o \in BOOLEAN, op \in Operations, n \in IdLens :
         StoreSubmitCalculation(s, o, op, n)
    \/ StoreGetHistory
    \/ \E n \in IdLens : StoreCallback(n)

SpecStore == InitStore /\ [][NextStore]_vars

(***************************************************************************)
(* Views of the ledger used by the properties.                             *)
(***************************************************************************)
HasAccount == account # <<>>
State == account[1]
HasRecord == IF HasAccount THEN IsSome(State.last_calculation) ELSE FALSE
Rec == State.last_calculation[1]

\* The exact mathematical result of an operation on two integers; for
\* Divide (divisor not 0) the quotient q with a = q*b + r, |r| < |b| and r
\* of the sign of a, that is the quotient truncated toward zero.
MathResult(operation, a, b) ==
    CASE operation = 0 -> a + b
      [] operation = 1 -> a - b
      [] operation = 2 -> a * b
      [] operation = 3 ->
           CHOOSE q \in (-Abs(a))..Abs(a) :
               /\ Abs(a - q * b) < Abs(b)
               /\ (a - q * b = 0 \/ (a - q * b < 0) = (a < 0))

\* compute(operation, a, b) succeeds: the operation is one of the four, the
\* divisor of a division is not 0 and the result is a signed value.
ComputeSucceeds(operation, a, b) ==
    /\ operation \in 0..3
    /\ (operation = 3 => b # 0)
    /\ InRange(MathResult(operation, a, b))

CallbackStep == last'.op = "callback"

SubmitOkStep == last'.op = "submit_calculation" /\ last'.ret = "Ok"

CompletingStep ==
    /\ CallbackStep
    /\ HasRecord
    /\ ~Rec.is_complete
    /\ HasRecord'
    /\ Rec'.is_complete

C9_InvalidOperationRejected ==
    \A p \in Keys, id \in ExecutionIds, op \in Operations, ab \in OperandPairs :
      op \notin 0..3 =>
        LET out == submit_calculation(account, p, TRUE, id, op,
                                      ab[1], ab[2], clock)
        IN  out.ret = "InvalidInstructionData" /\ out.data = account

C9_Witness ==
    /\ HasAccount
    /\ last.op = "submit_calculation"
    /\ last.ret = "InvalidInstructionData"

C13_InitializeOnce ==
    \A p \in Keys :
      LET out == initialize(account, p, TRUE)
      IN  IF HasAccount
          THEN /\ out.ret = "AccountAlreadyInUse"
               /\ out.data = account
          ELSE /\ out.ret = "Ok"
               /\ out.data = <<[owner |-> p, is_initialized |-> TRUE,
                                calculation_count |-> 0,
                                last_calculation |-> <<>>]>>

C13_Witness ==
    /\ HasRecord
    /\ last.op = "initialize"
    /\ last.ret = "AccountAlreadyInUse"
    /\ State.calculation_count = 1
    /\ State.owner = "payer1"

(***************************************************************************)
(* Views of a finished execution of the guest used by the properties.      *)
(***************************************************************************)
ZkDone == zk.phase = "done"
ZkOp == zk.request[1]
ZkA == zk.request[2]
ZkB == zk.request[3]
ZkCommitted == zk.journal # <<>>

RECURSIVE DigitsValue(_)
DigitsValue(d) ==
    IF d = <<>> THEN 0
    ELSE 10 * DigitsValue(SubSeq(d, 1, Len(d) - 1)) + (d[Len(d)] - 48)

\* t is the canonical decimal text of v: an optional '-' (for v < 0 only),
\* then decimal digits without a leading zero (except the text "0") whose
\* value is |v|.
IsDecimalTextOf(t, v) ==
    LET d == IF v < 0 THEN Tail(t) ELSE t IN
    /\ Len(t) >= 1
    /\ (v < 0) => t[1] = 45
    /\ Len(d) >= 1
    /\ \A i \in 1..Len(d) : d[i] \in 48..57
    /\ (Len(d) > 1) => d[1] # 48
    /\ DigitsValue(d) = Abs(v)

\* The journal is the canonical decimal text of v from byte 0, followed by
\* spaces only, 32 bytes in all.
IsPaddedTextOf(journal, v) ==
    /\ Len(journal) = PADDED_RESULT_LEN
    /\ \E n \in 1..PADDED_RESULT_LEN :
         /\ IsDecimalTextOf(SubSeq(journal, 1, n), v)
         /\ \A i \in (n + 1)..PADDED_RESULT_LEN : journal[i] = 32

(***************************************************************************)
(* C14.  For Add, Subtract and Multiply the guest commits the exact        *)
(* mathematical result when it lies in the i64 range; otherwise it halts   *)
(* with the arithmetic overflow panic and commits nothing (never a wrapped *)
(* value).                                                                 *)
(***************************************************************************)
C14_CheckedArithmetic ==
    (ZkDone /\ ZkOp \in {OP_ADD, OP_SUBTRACT, OP_MULTIPLY}) =>
      IF InRange(MathResult(ZkOp, ZkA, ZkB))
      THEN /\ zk.panic = ""
           /\ IsPaddedTextOf(zk.journal, MathResult(ZkOp, ZkA, ZkB))
      ELSE /\ zk.panic = "Arithmetic overflow/underflow"
           /\ ~ZkCommitted

C14_Witness ==
    /\ ZkDone
    /\ zk.request = <<OP_ADD, MaxInt, 1>>
    /\ zk.builder = "program"
    /\ zk.panic = "Arithmetic overflow/underflow"
    /\ ~ZkCommitted

(***************************************************************************)
(* C15.  Divide by 0 halts with the division-by-zero panic for every       *)
(* dividend (the divisor is tested before any division) and commits        *)
(* nothing.                                                                *)
(***************************************************************************)
C15_DivisionByZero ==
    (ZkDone /\ ZkOp = OP_DIVIDE /\ ZkB = 0) =>
      /\ zk.panic = "Division by zero"
      /\ zk.value = None
      /\ ~ZkCommitted

C15_Witness ==
    /\ ZkDone
    /\ zk.request = <<OP_DIVIDE, MinInt, 0>>
    /\ zk.panic = "Division by zero"
    /\ ~ZkCommitted

(***************************************************************************)
(* C16.  As claimed: for Divide with a divisor other than 0 the guest      *)
(* commits the quotient truncated toward zero, for every dividend and      *)
(* divisor, i64::MIN divided by -1 included.                               *)
(***************************************************************************)
C16_DivideAlwaysCommits ==
    (ZkDone /\ ZkOp = OP_DIVIDE /\ ZkB # 0) =>
      /\ zk.panic = ""
      /\ IsPaddedTextOf(zk.journal, MathResult(OP_DIVIDE, ZkA, ZkB))

(***************************************************************************)
(* C16, amended.  For Divide with a divisor other than 0 the guest commits *)
(* the quotient truncated toward zero, except for i64::MIN divided by -1,  *)
(* whose quotient is no i64: there it halts with the arithmetic overflow   *)
(* panic and commits nothing.                                              *)
(***************************************************************************)
C16_DivideTruncates ==
    (ZkDone /\ ZkOp = OP_DIVIDE /\ ZkB # 0) =>
      IF ZkA = MinInt /\ ZkB = -1
      THEN /\ zk.panic = "Arithmetic overflow/underflow"
           /\ ~ZkCommitted
      ELSE /\ zk.panic = ""
           /\ IsPaddedTextOf(zk.journal, MathResult(OP_DIVIDE, ZkA, ZkB))

C16_Witness ==
    /\ ZkDone
    /\ zk.request = <<OP_DIVIDE, -7, 2>>
    /\ zk.value = <<-3>>
    /\ IsPaddedTextOf(zk.journal, -3)

(***************************************************************************)
(* C17.  For every operation code outside 0..3 (negative, 4..255, above    *)
(* 255) the guest halts on the operation code, by the out-of-u8-range or   *)
(* the unknown-operation panic, before any arithmetic, and commits         *)
(* nothing.                                                                *)
(***************************************************************************)
C17_UnknownOperation ==
    (ZkDone /\ ZkOp \notin 0..3) =>
      /\ zk.panic \in {"Operation code out of u8 range", "Unknown operation"}
      /\ zk.value = None
      /\ ~ZkCommitted

C17_Witness ==
    /\ ZkDone
    /\ ZkOp = U8_MAX + 1
    /\ ZkB = 0
    /\ zk.panic = "Operation code out of u8 range"
    /\ ~ZkCommitted

(***************************************************************************)
(* C18.  The input buffer built for a request (operation, a, b) is 24      *)
(* bytes, the same whether submit_calculation or the client builds it, and *)
(* the guest's three sequential 8-byte little-endian reads decode it to    *)
(* (operation, a, b) again, negative values included.                      *)
(***************************************************************************)
C18_InputRoundTrip ==
    (zk.phase \in {"ready", "done"}) =>
      /\ Len(zk.input) = 3 * I64_BYTES
      /\ zk.input = combined_input(ZkOp, ZkA, ZkB)
      /\ zk.input = client_combined_input(ZkOp, ZkA, ZkB)
      /\ <<read_i64_input(zk.input, 0), read_i64_input(zk.input, 1),
           read_i64_input(zk.input, 2)>> = zk.request
      /\ (ZkDone /\ ZkOp \in 0..U8_MAX) => zk.read = zk.request

C18_Witness ==
    /\ ZkDone
    /\ zk.builder = "program"
    /\ zk.request = <<OP_SUBTRACT, -13, MaxInt>>
    /\ zk.read = <<OP_SUBTRACT, -13, MaxInt>>
    /\ SubSeq(zk.input, 9, 16) = <<243, 255, 255, 255, 255, 255, 255, 255>>

C20_ResultRoundTrip ==
    (ZkDone /\ zk.panic = "") =>
      callback_result(callback_instruction_data(zk.journal)) = zk.value

(***************************************************************************)
(* C21.  Instruction data that cannot be decoded are refused with the      *)
(* decoding error before any handler runs, and leave the ledger unchanged  *)
(* whatever its state (no account, no record, Pending or Complete).        *)
(***************************************************************************)
C21_UndecodableRejected ==
    \A d \in UndecodableData, p \in Keys, s \in BOOLEAN :
      LET out == process_instruction(account, p, s, d, clock) IN
      /\ out.ret = "BorshIoError"
      /\ out.log = ""
      /\ out.data = account

C21_Witness ==
    /\ HasRecord
    /\ ~Rec.is_complete
    /\ Rec.execution_id = "test_add_001"
    /\ last.op = "process_instruction"
    /\ last.ret = "BorshIoError"

(***************************************************************************)
(* C22.  A callback that completes the current record changes the          *)
(* record's result and status only: its execution id, operation and        *)
(* operands, and the ledger's owner and count, are what they were.         *)
(***************************************************************************)
CompletedStep == CallbackStep /\ last'.log = MSG_COMPLETED

RejectedCallbackStep ==
    \/ CallbackStep /\ last'.log = MSG_MISMATCH
    \/ last'.op = "process_instruction" /\ last'.ret = "BorshIoError"

C26_PrefixRoutesToCallback ==
    (zk.builder \in {"program", "client"}) =>
      /\ Len(zk.prefix) = 1
      /\ tag_variant(zk.prefix[1]) = "Callback"

(***************************************************************************)
(* C25.  For every id given to the client, the execution id it prepares is *)
(* exactly 16 bytes: the bytes of the given id, cut after the 16th, and    *)
(* for a shorter id followed by one and the same padding byte.             *)
(***************************************************************************)
C25_ExecutionIdIs16Bytes ==
    (client.phase = "prepared") =>
      LET given == as_bytes(client.input) IN
      /\ ~client.panic
      /\ Len(client.id) = ID_LEN
      /\ \A i \in 1..ID_LEN :
           IF i <= Len(given) THEN client.id[i] = given[i]
           ELSE client.id[i] = client.id[ID_LEN]

(***************************************************************************)
(* C28.  The state written into the account can always be loaded back by   *)
(* the next instruction: loading succeeds and yields the count and the     *)
(* current record that were last written.                                  *)
(***************************************************************************)
C28_StoredStateLoads ==
    (store.data # <<>>) =>
      /\ IsSome(strict_try_from_slice(store.data))
      /\ strict_try_from_slice(store.data) = <<store.data[1].state>>

====
